---- MODULE Spec2Model ----
(***************************************************************************)
(* A model of cms/contrib/YamlImporter.py: the import of a contest         *)
(* directory (contest.yaml, one directory and one yaml file per task) into *)
(* a Contest aggregate that is committed through one database session.     *)
(*                                                                         *)
(* The program is sequential.  Its state is the position in do_import      *)
(* (pc), the locals of the function being executed, the database, the      *)
(* session, and a history (log) of the calls that leave the process: the   *)
(* uploads to FileStorage and the calls on metadata and on the session.    *)
(* What the program reads from the outside (the yaml documents, whether a  *)
(* file can be opened, whether a remote call succeeds) is drawn from small *)
(* sets at the step that reads it.                                         *)
(*                                                                         *)
(* A python dict is a function from its keys; text that the code takes     *)
(* apart or puts together (risultati, n_input, the user's names) is a      *)
(* sequence of one-character strings; a path is a sequence of segments.    *)
(* The interpreter is run as the shebang line runs it: assert statements   *)
(* are executed.                                                           *)
(***************************************************************************)
EXTENDS Integers, Sequences, FiniteSets, TLC

VARIABLES
    dir,        \* do_import's argument: the contest directory
    drop,       \* do_import's argument: the --drop flag
    zero_time,  \* do_import's argument: the --zero-time flag
    db,         \* the database: [schema: does it exist, rows: what is stored]
    session,    \* the session of do_import: "none", "open" or "closed"
    added,      \* the objects added to the session and not yet committed
    pc,         \* the statement do_import (or the extractor it called) is at
    err,        \* the exception that ended the run, "" while there is none
    log,        \* history of the calls on FileStorage, metadata and Session
    cconf,      \* get_params_for_contest: conf, as last read
    params,     \* import_contest: the dict given to Contest(**params)
    tasks,      \* import_contest: the list conf["problemi"]
    users,      \* import_contest: the list conf["utenti"]
    ti,         \* import_contest: position of the task loop, 1-based
    ui,         \* import_contest: position of the user loop, 1-based
    tname,      \* get_params_for_task: name
    tconf,      \* get_params_for_task: conf
    tparams,    \* get_params_for_task: params
    fd,         \* get_params_for_task: fd, "unset", "None" or "file"
    n,          \* get_params_for_task: int(conf["n_input"])
    i,          \* get_params_for_task: the index of the list comprehension
    tcases,     \* get_params_for_task: the list the comprehension is building
    inref,      \* get_params_for_task: the first argument of Testcase(...)
    c           \* do_import: the Contest that import_contest returned

vars == <<dir, drop, zero_time, db, session, added, pc, err, log, cconf, params,
          tasks, users, ti, ui, tname, tconf, tparams, fd, n, i, tcases, inref, c>>

args == <<dir, drop, zero_time>>
contestLocals == <<cconf, params, tasks, users, ti, ui>>
taskLocals == <<tname, tconf, tparams, fd, n, i, tcases, inref>>

-----------------------------------------------------------------------------
(* Bounds of the model.                                                    *)

MaxTasks == 2       \* longest list conf["problemi"]
MaxUsers == 2       \* longest list conf["utenti"]
MaxInputs == 2      \* largest n_input
MaxLen == 5         \* longest text of conf["risultati"]
MaxName == 2        \* longest username
TokenValue == 7     \* the value of a token field that is configured

-----------------------------------------------------------------------------
(* Python values.                                                          *)

Empty == <<>>                       \* {} and [], and a local not yet bound

Has(d, k) == k \in DOMAIN d         \* k in d

Get(d, k, default) == IF Has(d, k) THEN d[k] ELSE default   \* d.get(k, default)

Last(s) == s[Len(s)]

Front(s) == SubSeq(s, 1, Len(s) - 1)

Digits == {"0", "1", "2", "3", "4", "5", "6", "7", "8", "9"}

DigitValue(ch) ==
    CASE ch = "0" -> 0 [] ch = "1" -> 1 [] ch = "2" -> 2 [] ch = "3" -> 3
      [] ch = "4" -> 4 [] ch = "5" -> 5 [] ch = "6" -> 6 [] ch = "7" -> 7
      [] ch = "8" -> 8 [] ch = "9" -> 9

RECURSIVE Strip(_)
(* str.strip() as int() applies it: blanks at both ends are dropped.       *)
Strip(s) ==
    IF s = <<>> THEN s
    ELSE IF Head(s) = " " THEN Strip(Tail(s))
    ELSE IF Last(s) = " " THEN Strip(Front(s))
    ELSE s

RECURSIVE Decimal(_)
(* The value of a non-empty sequence of digits, base 10.                   *)
Decimal(s) ==
    IF Len(s) = 1 THEN DigitValue(s[1])
    ELSE 10 * Decimal(Front(s)) + DigitValue(Last(s))

Unsigned(s) == s # <<>> /\ \A k \in 1..Len(s) : s[k] \in Digits

Body(s) == IF s # <<>> /\ Head(s) \in {"-", "+"} THEN Tail(s) ELSE s

(* int(text): blanks around, an optional sign, then one or more digits;    *)
(* anything else raises ValueError.                                        *)
IsIntText(s) == Unsigned(Body(Strip(s)))

IntOfText(s) ==
    LET t == Strip(s)
    IN  IF Head(t) = "-" THEN 0 - Decimal(Body(t)) ELSE Decimal(Body(t))

RECURSIVE SplitOn(_, _, _)
(* text.split(sep): the pieces between the separators, empty ones kept;    *)
(* cur is the piece being read.                                            *)
SplitOn(s, sep, cur) ==
    IF s = <<>> THEN <<cur>>
    ELSE IF Head(s) = sep THEN <<cur>> \o SplitOn(Tail(s), sep, <<>>)
    ELSE SplitOn(Tail(s), sep, Append(cur, Head(s)))

Split(s, sep) == SplitOn(s, sep, <<>>)

RECURSIVE StrJoin(_, _)
(* sep.join(list)                                                          *)
StrJoin(sep, list) ==
    IF list = <<>> THEN <<>>
    ELSE IF Len(list) = 1 THEN list[1]
    ELSE list[1] \o sep \o StrJoin(sep, Tail(list))

-----------------------------------------------------------------------------
(* Paths.                                                                  *)

Cwd == <<"srv">>                    \* the directory the importer is run in

Links == [s \in {"cur"} |-> "demo"] \* symbolic links: name |-> sibling it names

RECURSIVE Resolve(_, _)
Resolve(done, rest) ==
    IF rest = <<>> THEN done
    ELSE LET s == Head(rest)
         IN  IF s \in {"", "."} THEN Resolve(done, Tail(rest))
             ELSE IF s = ".."
                  THEN Resolve(IF done = <<>> THEN done ELSE Front(done), Tail(rest))
             ELSE IF s \in DOMAIN Links
                  THEN Resolve(Append(done, Links[s]), Tail(rest))
             ELSE Resolve(Append(done, s), Tail(rest))

(* os.path.realpath(path): absolute, without ".", "..", a trailing slash   *)
(* (an empty last segment) or symbolic links.                              *)
RealPath(path) == Resolve(Cwd, path)

(* os.path.split(path): (head, tail), tail the last segment.               *)
PathSplit(path) ==
    IF path = <<>> THEN <<path, "">> ELSE <<Front(path), Last(path)>>

PathJoin(path, seg) == Append(path, seg)    \* os.path.join(path, seg)

-----------------------------------------------------------------------------
(* The records of cms.db.SQLAlchemyAll: each constructor keeps its         *)
(* arguments.                                                              *)

Testcase(input, output) == [input |-> input, output |-> output]

Manager(digest) == [digest |-> digest]

PublicTestcase(num) == [num |-> num]

SubmissionFormatElement(filename) == [filename |-> filename]

TASK_TYPE_BATCH == "TASK_TYPE_BATCH"

SCORE_TYPE_SUM == "SCORE_TYPE_SUM"

-----------------------------------------------------------------------------
(* The history of the calls that leave the process.                        *)

Ev(op, task, file, idx, ref) ==
    [op |-> op, task |-> task, file |-> file, idx |-> idx, ref |-> ref]

Call(op) == Ev(op, "", "", 0, 0)

(* FileStorage answers a put with a reference it has not given before.     *)
NewRef == Len(log) + 1

Put(task, file, idx) == Ev("put", task, file, idx, NewRef)

-----------------------------------------------------------------------------
(* get_params_for_contest, lines 55-75.  doc is what contest.yaml holds,   *)
(* NoFile when it cannot be opened.                                        *)

NoFile == [enoent |-> TRUE]

Raised(e) == [err |-> e, params |-> Empty, tasks |-> <<>>, users |-> <<>>]

(* TokenParams with the contest's token_gen_time for every entity.         *)
TokenParamsOneDefault(conf, gen_time) ==
    [token_initial |-> Get(conf, "token_initial", 0),
     token_max |-> Get(conf, "token_max", 0),
     token_total |-> Get(conf, "token_total", 0),
     token_min_interval |-> Get(conf, "token_min_interval", 0),
     token_gen_time |-> Get(conf, "token_gen_time", 1)]

(* lines 64-68 and 139-143; gen_time is the default of token_gen_time.     *)
TokenParams(conf, gen_time) ==
    [token_initial |-> Get(conf, "token_initial", 0),
     token_max |-> Get(conf, "token_max", 0),
     token_total |-> Get(conf, "token_total", 0),
     token_min_interval |-> Get(conf, "token_min_interval", 0),
     token_gen_time |-> Get(conf, "token_gen_time", gen_time)]

ContestName(path) == PathSplit(RealPath(path))[2]

ContestParams(path, doc, zero) ==
    LET name == ContestName(path)
    IN  IF Has(doc, "enoent") THEN Raised("IOError")
        ELSE IF ~Has(doc, "nome_breve") THEN Raised("KeyError")
        ELSE IF name # doc.nome_breve THEN Raised("AssertionError")
        ELSE IF ~Has(doc, "nome") THEN Raised("KeyError")
        ELSE IF ~Has(doc, "problemi") \/ ~Has(doc, "utenti") THEN Raised("KeyError")
        ELSE [err |-> "",
              params |-> [name |-> name, description |-> doc.nome]
                         @@ TokenParams(doc, 1)
                         @@ [start |-> IF zero THEN 0 ELSE Get(doc, "inizio", 0),
                             stop |-> IF zero THEN 0 ELSE Get(doc, "fine", 0)],
              tasks |-> doc.problemi,
              users |-> doc.utenti]

-----------------------------------------------------------------------------
(* get_params_for_user, lines 83-92.                                       *)

RealName(user_dict) ==
    LET name == Get(user_dict, "nome", <<>>)
        surname == Get(user_dict, "cognome", user_dict.username)
    IN  StrJoin(<<" ">>, <<name, surname>>)

UserRaises(user_dict) == ~Has(user_dict, "username") \/ ~Has(user_dict, "password")

UserParams(user_dict) ==
    [username |-> user_dict.username,
     password |-> user_dict.password,
     real_name |-> RealName(user_dict),
     ip |-> Get(user_dict, "ip", "0.0.0.0"),
     hidden |-> ("True" = Get(user_dict, "fake", "False")),
     tokens |-> <<>>]

-----------------------------------------------------------------------------
(* get_params_for_task: the parts that only compute.                       *)

(* lines 100-101: the name of the task, from the path import_contest made. *)
TaskName(path) == PathSplit(RealPath(path))[2]

(* TaskConfError without the assert of line 107.                           *)
TaskConfErrorNoAssert(name, doc) ==
    IF Has(doc, "enoent") THEN "IOError"
    ELSE IF ~Has(doc, "nome_breve") THEN "KeyError"
    ELSE IF ~Has(doc, "nome") \/ ~Has(doc, "timeout") \/ ~Has(doc, "memlimit")
         THEN "KeyError"
    ELSE ""

(* lines 102-111: the exception of the first statements, "" when none.     *)
TaskConfError(name, doc) ==
    IF Has(doc, "enoent") THEN "IOError"
    ELSE IF ~Has(doc, "nome_breve") THEN "KeyError"
    ELSE IF name # doc.nome_breve THEN "AssertionError"
    ELSE IF ~Has(doc, "nome") \/ ~Has(doc, "timeout") \/ ~Has(doc, "memlimit")
         THEN "KeyError"
    ELSE ""

(* line 133: int(conf["n_input"]); the value is a number or a text.        *)
InputCountError(conf) ==
    IF ~Has(conf, "n_input") THEN "KeyError"
    ELSE IF Has(conf.n_input, "str") /\ ~IsIntText(conf.n_input.str) THEN "ValueError"
    ELSE ""

InputCount(conf) ==
    IF Has(conf.n_input, "int") THEN conf.n_input.int ELSE IntOfText(conf.n_input.str)

(* MoreInputs with the bound included.                                     *)
MoreInputsInclusive(k, count) == k <= count

(* line 133: range(count) has another index after k - 1.                  *)
MoreInputs(k, count) == k < count

(* Managers without the test of fd.                                        *)
ManagersAlways(file, ref) == [checker |-> Manager(ref)]

(* lines 121-124: the managers, given fd and the reference of the upload.  *)
Managers(file, ref) ==
    IF file # "None" THEN [checker |-> Manager(ref)] ELSE Empty

RECURSIVE NonEmpty(_)
NonEmpty(list) ==
    IF list = <<>> THEN <<>>
    ELSE IF Head(list) = <<>> THEN NonEmpty(Tail(list))
    ELSE <<Head(list)>> \o NonEmpty(Tail(list))

(* PublicTokens with the empty pieces filtered out.                        *)
PublicTokensFiltered(conf) == NonEmpty(Split(Get(conf, "risultati", <<>>), ","))

(* lines 134-138.                                                          *)
PublicTokens(conf) == Split(Get(conf, "risultati", <<>>), ",")

PublicError(conf) ==
    IF PublicTokens(conf) = << <<>> >> THEN ""
    ELSE IF \E k \in 1..Len(PublicTokens(conf)) : ~IsIntText(PublicTokens(conf)[k])
         THEN "ValueError"
    ELSE ""

PublicTestcases(conf) ==
    LET public_testcases == PublicTokens(conf)
    IN  IF public_testcases = << <<>> >> THEN <<>>
        ELSE [k \in 1..Len(public_testcases) |->
                 PublicTestcase(IntOfText(public_testcases[k]))]

-----------------------------------------------------------------------------
(* The run.  An exception is not caught anywhere: it ends the run where    *)
(* it is raised, with everything as it was at that statement.              *)

Raise(e) == pc' = "failed" /\ err' = e

(* AfterTask with the task loop left after its first turn.                 *)
AfterTaskBreak(t, tl, ul) ==
    IF t <= 1 /\ t <= Len(tl) THEN "task" ELSE IF Len(ul) >= 1 THEN "user" ELSE "session"

(* The statement after one turn of the task loop (line 152), and of the    *)
(* user loop (line 156).                                                   *)
AfterTask(t, tl, ul) ==
    IF t <= Len(tl) THEN "task" ELSE IF Len(ul) >= 1 THEN "user" ELSE "session"

AfterUser(u, ul) == IF u <= Len(ul) THEN "user" ELSE "session"

(* line 155, reached when the task loop is left.                           *)
WithUsers(p, next) == IF next = "task" THEN p ELSE p @@ [users |-> <<>>]

(* DropAll without its condition.                                          *)
DropAllUnconditional ==
    /\ pc = "start"
    /\ \E ok \in BOOLEAN :
         IF ok
         THEN /\ db' = [schema |-> FALSE, rows |-> {}]
              /\ log' = Append(log, Call("drop_all"))
              /\ pc' = "create_all"
              /\ err' = err
         ELSE /\ Raise("DBError")
              /\ UNCHANGED <<db, log>>
    /\ UNCHANGED <<args, session, added, contestLocals, taskLocals, c>>

(* lines 163-164: if drop: metadata.drop_all()                             *)
DropAll ==
    /\ pc = "start"
    /\ drop
    /\ \E ok \in BOOLEAN :
         IF ok
         THEN /\ db' = [schema |-> FALSE, rows |-> {}]
              /\ log' = Append(log, Call("drop_all"))
              /\ pc' = "create_all"
              /\ err' = err
         ELSE /\ Raise("DBError")
              /\ UNCHANGED <<db, log>>
    /\ UNCHANGED <<args, session, added, contestLocals, taskLocals, c>>

(* line 165: metadata.create_all()                                         *)
CreateAll ==
    /\ pc = "create_all" \/ (pc = "start" /\ ~drop)
    /\ \E ok \in BOOLEAN :
         IF ok
         THEN /\ db' = [db EXCEPT !.schema = TRUE]
              /\ log' = Append(log, Call("create_all"))
              /\ pc' = "contest"
              /\ err' = err
         ELSE /\ Raise("DBError")
              /\ UNCHANGED <<db, log>>
    /\ UNCHANGED <<args, session, added, contestLocals, taskLocals, c>>

(* lines 150-151: get_params_for_contest and the empty task list.          *)
GetParamsForContest(Yamls) ==
    /\ pc = "contest"
    /\ \E doc \in Yamls :
         LET r == ContestParams(dir, doc, zero_time)
             next == AfterTask(1, r.tasks, r.users)
         IN  IF r.err # ""
             THEN /\ Raise(r.err)
                  /\ cconf' = doc
                  /\ log' = Append(log, Call("get_params_for_contest"))
                  /\ UNCHANGED <<params, tasks, users, ti, ui>>
             ELSE /\ cconf' = doc
                  /\ params' = WithUsers(r.params @@ [tasks |-> <<>>], next)
                  /\ tasks' = r.tasks
                  /\ users' = r.users
                  /\ ti' = 1
                  /\ ui' = 1
                  /\ log' = Append(log, Call("get_params_for_contest"))
                  /\ pc' = next
                  /\ err' = err
    /\ UNCHANGED <<args, db, session, added, taskLocals, c>>

(* lines 152-153 and 100-111: the next task, its name and its yaml file.   *)
TaskBegin(Yamls) ==
    /\ pc = "task"
    /\ \E doc \in Yamls :
         LET name == TaskName(PathJoin(dir, tasks[ti]))
             e == TaskConfError(name, doc)
         IN  IF e # ""
             THEN /\ Raise(e)
                  /\ tname' = name
                  /\ tconf' = doc
                  /\ tparams' = Empty
                  /\ fd' = "unset"
                  /\ n' = 0
                  /\ i' = 0
                  /\ tcases' = <<>>
                  /\ inref' = 0
                  /\ log' = Append(log, Ev("get_params_for_task", name, "", ti, 0))
             ELSE /\ tname' = name
                  /\ tconf' = doc
                  /\ tparams' = [name |-> name, title |-> doc.nome,
                                 time_limit |-> doc.timeout,
                                 memory_limit |-> doc.memlimit,
                                 attachments |-> Empty]
                  /\ fd' = "unset"
                  /\ n' = 0
                  /\ i' = 0
                  /\ tcases' = <<>>
                  /\ inref' = 0
                  /\ log' = Append(log, Ev("get_params_for_task", name, "", ti, 0))
                  /\ pc' = "statement"
                  /\ err' = err
    /\ UNCHANGED <<args, db, session, added, contestLocals, c>>

(* lines 112-116: testo.pdf is opened, read and uploaded.                  *)
Statement ==
    /\ pc = "statement"
    /\ \E exists \in BOOLEAN, ok \in BOOLEAN :
         IF ~exists
         THEN /\ Raise("IOError")
              /\ UNCHANGED <<log, tparams>>
         ELSE IF ~ok
         THEN /\ Raise("FSError")
              /\ UNCHANGED <<log, tparams>>
         ELSE /\ log' = Append(log, Put(tname, "testo.pdf", 0))
              /\ tparams' = tparams @@
                     [statement |-> NewRef,
                      task_type |-> TASK_TYPE_BATCH,
                      submission_format |->
                          <<SubmissionFormatElement(<<tname, ".%l">>)>>]
              /\ pc' = "checker"
              /\ err' = err
    /\ UNCHANGED <<args, db, session, added, contestLocals, c,
                   tname, tconf, fd, n, i, tcases, inref>>

(* lines 117-126: the checker, if cor/correttore can be opened.            *)
Checker ==
    /\ pc = "checker"
    /\ \E present \in BOOLEAN, ok \in BOOLEAN :
         LET rest == [score_type |-> Get(tconf, "score_type", SCORE_TYPE_SUM),
                      score_parameters |-> Get(tconf, "score_parameters", <<>>)]
         IN  IF ~present
             THEN /\ fd' = "None"
                  /\ tparams' = tparams @@ [managers |-> Managers("None", 0)] @@ rest
                  /\ log' = log
                  /\ pc' = "testcases"
                  /\ err' = err
             ELSE IF ~ok
             THEN /\ fd' = "file"
                  /\ Raise("FSError")
                  /\ UNCHANGED <<log, tparams>>
             ELSE /\ fd' = "file"
                  /\ log' = Append(log, Put(tname, "correttore", 0))
                  /\ tparams' = tparams @@
                         [managers |-> Managers("file", NewRef)] @@ rest
                  /\ pc' = "testcases"
                  /\ err' = err
    /\ UNCHANGED <<args, db, session, added, contestLocals, c,
                   tname, tconf, n, i, tcases, inref>>

(* line 133: range(int(conf["n_input"])), before the first upload.         *)
Testcases ==
    /\ pc = "testcases"
    /\ LET e == InputCountError(tconf)
       IN  IF e # ""
           THEN /\ Raise(e)
                /\ UNCHANGED <<n, i, tparams>>
           ELSE /\ n' = InputCount(tconf)
                /\ i' = 0
                /\ IF MoreInputs(0, InputCount(tconf))
                   THEN pc' = "input" /\ tparams' = tparams
                   ELSE pc' = "public" /\ tparams' = tparams @@ [testcases |-> <<>>]
                /\ err' = err
    /\ UNCHANGED <<args, db, session, added, contestLocals, c, log,
                   tname, tconf, fd, tcases, inref>>

(* lines 127-129: FS.put of input<i>.txt                                   *)
PutInput ==
    /\ pc = "input"
    /\ \E ok \in BOOLEAN :
         IF ok
         THEN /\ log' = Append(log, Put(tname, "input", i))
              /\ inref' = NewRef
              /\ pc' = "output"
              /\ err' = err
         ELSE /\ Raise("FSError")
              /\ UNCHANGED <<log, inref>>
    /\ UNCHANGED <<args, db, session, added, contestLocals, c,
                   tname, tconf, tparams, fd, n, i, tcases>>

(* lines 130-133: FS.put of output<i>.txt, the Testcase, the next index.   *)
PutOutput ==
    /\ pc = "output"
    /\ \E ok \in BOOLEAN :
         IF ok
         THEN /\ log' = Append(log, Put(tname, "output", i))
              /\ tcases' = Append(tcases, Testcase(inref, NewRef))
              /\ i' = i + 1
              /\ IF MoreInputs(i + 1, n)
                 THEN pc' = "input" /\ tparams' = tparams
                 ELSE pc' = "public" /\ tparams' = tparams @@ [testcases |-> tcases']
              /\ err' = err
         ELSE /\ Raise("FSError")
              /\ UNCHANGED <<log, tcases, i, tparams>>
    /\ UNCHANGED <<args, db, session, added, contestLocals, c,
                   tname, tconf, fd, n, inref>>

(* lines 134-144 and 154: the public testcases, the token fields, and the  *)
(* Task appended to the contest.                                           *)
Public ==
    /\ pc = "public"
    /\ LET e == PublicError(tconf)
           done == tparams @@ [public_testcases |-> PublicTestcases(tconf)]
                           @@ TokenParams(tconf, 60)
           next == AfterTask(ti + 1, tasks, users)
       IN  IF e # ""
           THEN /\ Raise(e)
                /\ UNCHANGED <<log, tparams, params, ti>>
           ELSE /\ tparams' = done
                /\ params' = WithUsers([params EXCEPT !.tasks = Append(@, done)], next)
                /\ ti' = ti + 1
                /\ log' = Append(log, Ev("Task", tname, "", ti, 0))
                /\ pc' = next
                /\ err' = err
    /\ UNCHANGED <<args, db, session, added, c, cconf, tasks, users, ui,
                   tname, tconf, fd, n, i, tcases, inref>>

(* GetParamsForUser with the exception caught and the user left out.       *)
GetParamsForUserSkipping ==
    /\ pc = "user"
    /\ LET user == users[ui]
       IN  /\ IF UserRaises(user)
              THEN UNCHANGED <<log, params>>
              ELSE /\ params' = [params EXCEPT !.users = Append(@, UserParams(user))]
                   /\ log' = Append(log, Ev("get_params_for_user", "", "", ui, 0))
           /\ ui' = ui + 1
           /\ pc' = AfterUser(ui + 1, users)
           /\ err' = err
    /\ UNCHANGED <<args, db, session, added, c, cconf, tasks, users, ti, taskLocals>>

(* lines 156-158: get_params_for_user and the User appended.               *)
GetParamsForUser ==
    /\ pc = "user"
    /\ LET user == users[ui]
       IN  IF UserRaises(user)
           THEN /\ Raise("KeyError")
                /\ UNCHANGED <<log, params, ui>>
           ELSE /\ params' = [params EXCEPT !.users = Append(@, UserParams(user))]
                /\ ui' = ui + 1
                /\ log' = Append(log, Ev("get_params_for_user", "", "", ui, 0))
                /\ pc' = AfterUser(ui + 1, users)
                /\ err' = err
    /\ UNCHANGED <<args, db, session, added, c, cconf, tasks, users, ti, taskLocals>>

(* lines 159 and 166-167: the Contest is returned, the session is made.    *)
OpenSession ==
    /\ pc = "session"
    /\ c' = params
    /\ session' = "open"
    /\ log' = Append(log, Call("Session"))
    /\ pc' = "add"
    /\ UNCHANGED <<args, db, added, err, contestLocals, taskLocals>>

(* line 168: session.add(c)                                                *)
SessionAdd ==
    /\ pc = "add"
    /\ \E ok \in BOOLEAN :
         IF ok
         THEN /\ added' = Append(added, c)
              /\ log' = Append(log, Call("add"))
              /\ pc' = "commit"
              /\ err' = err
         ELSE /\ Raise("DBError")
              /\ UNCHANGED <<added, log>>
    /\ UNCHANGED <<args, db, session, contestLocals, taskLocals, c>>

(* line 169: session.commit(); a commit that fails stores nothing.         *)
SessionCommit ==
    /\ pc = "commit"
    /\ \E ok \in BOOLEAN :
         IF ok
         THEN /\ db' = [db EXCEPT !.rows = @ \cup {added[k].name : k \in 1..Len(added)}]
              /\ added' = <<>>
              /\ log' = Append(log, Call("commit"))
              /\ pc' = "close"
              /\ err' = err
         ELSE /\ Raise("DBError")
              /\ UNCHANGED <<db, added, log>>
    /\ UNCHANGED <<args, session, contestLocals, taskLocals, c>>

(* line 170: session.close()                                               *)
SessionClose ==
    /\ pc = "close"
    /\ session' = "closed"
    /\ log' = Append(log, Call("close"))
    /\ pc' = "done"
    /\ UNCHANGED <<args, db, added, err, contestLocals, taskLocals, c>>

-----------------------------------------------------------------------------
(* What the runs are given: the arguments, the database before the run,    *)
(* and the yaml documents that may be found on disk.                       *)

SeqsUpTo(S, k) == UNION {[1..m -> S] : m \in 0..k}

TaskIds == {"A", "B"}

ContestYaml(nome_breve, problemi, utenti, more) ==
    [nome_breve |-> nome_breve, nome |-> "Contest",
     problemi |-> problemi, utenti |-> utenti] @@ more

TaskYaml(nome_breve, n_input, more) ==
    [nome_breve |-> nome_breve, nome |-> "Task", timeout |-> 1, memlimit |-> 64,
     n_input |-> n_input] @@ more

Alice == [username |-> <<"a", "l">>, password |-> <<"p", "w">>]

NoPassword == [username |-> <<"b", "o">>]

Databases ==
    {[schema |-> FALSE, rows |-> {}], [schema |-> TRUE, rows |-> {"legacy"}]}

InitWith(Dirs, ZeroTimes, Dbs) ==
    /\ dir \in Dirs
    /\ drop \in BOOLEAN
    /\ zero_time \in ZeroTimes
    /\ db \in Dbs
    /\ session = "none"
    /\ added = <<>>
    /\ pc = "start"
    /\ err = ""
    /\ log = <<>>
    /\ cconf = Empty
    /\ params = Empty
    /\ tasks = <<>>
    /\ users = <<>>
    /\ ti = 1
    /\ ui = 1
    /\ tname = ""
    /\ tconf = Empty
    /\ tparams = Empty
    /\ fd = "unset"
    /\ n = 0
    /\ i = 0
    /\ tcases = <<>>
    /\ inref = 0
    /\ c = Empty

NextWith(ContestYamls, TaskYamls) ==
    \/ DropAll
    \/ CreateAll
    \/ GetParamsForContest(ContestYamls)
    \/ TaskBegin(TaskYamls)
    \/ Statement
    \/ Checker
    \/ Testcases
    \/ PutInput
    \/ PutOutput
    \/ Public
    \/ GetParamsForUser
    \/ OpenSession
    \/ SessionAdd
    \/ SessionCommit
    \/ SessionClose

(* The whole import: contests of up to MaxTasks tasks and MaxUsers users,  *)
(* every kind of failure of an extractor, of FileStorage and of the        *)
(* database.                                                               *)
MainContestYamls ==
    {NoFile} \cup
    {ContestYaml("demo", ps, us, Empty) :
        ps \in SeqsUpTo(TaskIds, MaxTasks), us \in SeqsUpTo({Alice, NoPassword}, MaxUsers)}

MainTaskYamls ==
    {NoFile} \cup
    {TaskYaml(nb, count, Empty) :
        nb \in TaskIds, count \in {[int |-> 1], [str |-> <<"x">>]}}

Init == InitWith({<<"demo">>, <<"cur", "">>, <<"other">>}, BOOLEAN, Databases)

Next == NextWith(MainContestYamls, MainTaskYamls)

Spec == Init /\ [][Next]_vars

-----------------------------------------------------------------------------
(* Runs on one contest with the task A and the user Alice, given every     *)
(* value of one part of the configuration.                                 *)

OneDir == {<<"demo">>}

OneDb == {[schema |-> TRUE, rows |-> {"legacy"}]}

TextsUpTo(Chars, k) == SeqsUpTo(Chars, k)

(* n_input: the numbers -1..MaxInputs, as a number and as text, and texts  *)
(* that are no number.                                                     *)
NumberText(k) ==
    CASE k = -1 -> <<"-", "1">> [] k = 0 -> <<"0">> [] k = 1 -> <<"1">>
      [] k = 2 -> <<"2">> [] k = 3 -> <<"3">> [] k = 4 -> <<"4">>

InputCounts ==
    {[int |-> k] : k \in -1..MaxInputs}
    \cup {[str |-> NumberText(k)] : k \in -1..MaxInputs}
    \cup {[str |-> <<" ", "2">>], [str |-> <<"0", "1">>], [str |-> <<>>],
          [str |-> <<"x">>], [str |-> <<"1", ",">>]}

CountContestYamls == {ContestYaml("demo", <<"A">>, <<Alice>>, Empty)}

CountTaskYamls ==
    {TaskYaml("A", count, more) :
        count \in InputCounts, more \in {Empty, [risultati |-> <<"0">>]}}
    \cup {[nome_breve |-> "A", nome |-> "Task", timeout |-> 1, memlimit |-> 64]}

InitCount == InitWith(OneDir, {FALSE}, OneDb)

NextCount == NextWith(CountContestYamls, CountTaskYamls)

SpecCount == InitCount /\ [][NextCount]_vars

(* risultati: every text of up to MaxLen characters.                       *)
PublicChars == {"0", "2", "5", ",", "-"}

PublicTaskYamls ==
    {TaskYaml("A", [int |-> 1], Empty)}
    \cup {TaskYaml("A", [int |-> 1], [risultati |-> text]) :
             text \in TextsUpTo(PublicChars, MaxLen)}

InitPublic == InitWith(OneDir, {FALSE}, OneDb)

NextPublic == NextWith(CountContestYamls, PublicTaskYamls)

SpecPublic == InitPublic /\ [][NextPublic]_vars

(* The token fields: each one absent or configured, for the contest and    *)
(* for the task.                                                           *)
TokenKeys ==
    {"token_initial", "token_max", "token_total", "token_min_interval",
     "token_gen_time"}

TokenConfs == UNION {[K -> {TokenValue}] : K \in SUBSET TokenKeys}

TokenContestYamls ==
    {ContestYaml("demo", <<"A">>, <<Alice>>, toks) : toks \in TokenConfs}

TokenTaskYamls == {TaskYaml("A", [int |-> 1], toks) : toks \in TokenConfs}

InitToken == InitWith(OneDir, BOOLEAN, OneDb)

NextToken == NextWith(TokenContestYamls, TokenTaskYamls)

SpecToken == InitToken /\ [][NextToken]_vars

(* The user records: usernames of up to MaxName characters, with and       *)
(* without nome, cognome and password.                                     *)
Usernames == TextsUpTo({"a", "l"}, MaxName) \ {<<>>}

UserDicts ==
    {[username |-> u, password |-> <<"p", "w">>] @@ nome @@ cognome :
        u \in Usernames,
        nome \in {Empty, [nome |-> <<>>], [nome |-> <<"A">>]},
        cognome \in {Empty, [cognome |-> <<"Z">>]}}
    \cup {NoPassword, [password |-> <<"p", "w">>]}

UserContestYamls == {ContestYaml("demo", <<"A">>, <<u>>, Empty) : u \in UserDicts}

UserTaskYamls == {TaskYaml("A", [int |-> 1], Empty)}

InitUser == InitWith(OneDir, {FALSE}, OneDb)

NextUser == NextWith(UserContestYamls, UserTaskYamls)

SpecUser == InitUser /\ [][NextUser]_vars

-----------------------------------------------------------------------------
(* Reading the history.                                                    *)

Ops(op) == {k \in 1..Len(log) : log[k].op = op}

OpsAt(op, idx) == {k \in Ops(op) : log[k].idx = idx}

ExtractorErrors == {"IOError", "KeyError", "AssertionError", "ValueError", "FSError"}

(* The calls that belong to the extraction of tasks and users.             *)
ExtractionOps == {"get_params_for_task", "put", "Task", "get_params_for_user"}

(* The place in the history where the task being extracted was begun, 0    *)
(* before the first task.                                                  *)
Begun ==
    IF Ops("get_params_for_task") = {} THEN 0
    ELSE CHOOSE k \in Ops("get_params_for_task") :
             \A m \in Ops("get_params_for_task") : m <= k

(* The uploads made for the task being extracted, in the order made.       *)
RECURSIVE PutsFrom(_)
PutsFrom(k) ==
    IF k > Len(log) THEN <<>>
    ELSE IF log[k].op = "put" THEN <<log[k]>> \o PutsFrom(k + 1)
    ELSE PutsFrom(k + 1)

TaskPuts == IF Begun = 0 THEN <<>> ELSE PutsFrom(Begun)

-----------------------------------------------------------------------------
(* C1: a run in which an extractor fails issues no commit (and adds        *)
(* nothing to a session: it has none); a run commits at most once, and a   *)
(* commit comes after the contest extraction, the extraction of every      *)
(* configured task and the extraction of every configured user, with the   *)
(* aggregate holding all of them.                                          *)
C1_CommitOnlyAfterExtraction ==
    /\ Cardinality(Ops("commit")) <= 1
    /\ \A k \in Ops("commit") :
         /\ \E m \in Ops("get_params_for_contest") : m < k
         /\ \A t \in 1..Len(tasks) : \E m \in OpsAt("Task", t) : m < k
         /\ \A u \in 1..Len(users) : \E m \in OpsAt("get_params_for_user", u) : m < k
         /\ Len(c.tasks) = Len(tasks)
         /\ Len(c.users) = Len(users)
    /\ (pc = "failed" /\ err \in ExtractorErrors) =>
         /\ Ops("commit") = {}
         /\ Ops("add") = {}
         /\ session = "none"
         /\ added = <<>>

(* A user record without password ends the run after both tasks were       *)
(* extracted and their files uploaded; nothing is committed.               *)
C1_Witness ==
    /\ pc = "failed"
    /\ err = "KeyError"
    /\ Len(tasks) = 2
    /\ Len(params.tasks) = 2
    /\ Ops("put") # {}
    /\ Ops("get_params_for_user") # {}
    /\ Ops("commit") = {}

(* C2, as claimed: a run that made the session ends with it closed.        *)
C2_SessionClosedAtEnd ==
    (pc \in {"done", "failed"} /\ session # "none") => session = "closed"

(* C9: the aggregate has one Task per entry of conf["problemi"] and one    *)
(* User per entry of conf["utenti"], in the order of the configuration;    *)
(* the contest extractor is called before anything else of the extraction, *)
(* a task is begun only when the task before it is finished, every upload  *)
(* lies between the begin and the end of one task, and the first user is   *)
(* extracted after the last task.                                          *)
C9_Aggregate ==
    c # Empty =>
       /\ Len(c.tasks) = Len(tasks)
       /\ \A k \in 1..Len(tasks) :
            /\ c.tasks[k].name = Last(RealPath(dir \o <<tasks[k]>>))
            /\ \E b \in OpsAt("get_params_for_task", k), e \in OpsAt("Task", k) :
                 /\ b < c.tasks[k].statement
                 /\ c.tasks[k].statement < e
                 /\ \A tc \in 1..Len(c.tasks[k].testcases) :
                      /\ b < c.tasks[k].testcases[tc].input
                      /\ c.tasks[k].testcases[tc].output < e
       /\ Len(c.users) = Len(users)
       /\ \A k \in 1..Len(users) : c.users[k].username = users[k].username

C9_Order ==
    /\ \A k \in 1..Len(log) :
         log[k].op \in ExtractionOps => \E m \in Ops("get_params_for_contest") : m < k
    /\ \A k \in Ops("get_params_for_task") :
         /\ Cardinality(OpsAt("get_params_for_task", log[k].idx)) = 1
         /\ log[k].idx > 1 => \E m \in OpsAt("Task", log[k].idx - 1) : m < k
    /\ \A k \in Ops("Task") :
         /\ Cardinality(OpsAt("Task", log[k].idx)) = 1
         /\ \E m \in OpsAt("get_params_for_task", log[k].idx) : m < k
    /\ \A k \in Ops("put") :
         \E b \in Ops("get_params_for_task") :
            /\ b < k
            /\ \A e \in OpsAt("Task", log[b].idx) : k < e
    /\ \A k \in Ops("get_params_for_user") :
         /\ \A t \in 1..Len(tasks) : \E m \in OpsAt("Task", t) : m < k
         /\ \A m \in 1..Len(log) :
              log[m].op \in {"get_params_for_task", "put", "Task"} => m < k
         /\ \A m \in Ops("get_params_for_user") : m < k => log[m].idx < log[k].idx

C10_State ==
    /\ (drop /\ log # <<>>) => log[1].op = "drop_all"
    /\ Cardinality(Ops("drop_all")) <= 1
    /\ (drop /\ pc = "failed" /\ err \in ExtractorErrors) => db.rows = {}
    /\ ~drop => Ops("drop_all") = {}

C10_Step ==
    /\ (db'.rows # db.rows /\ ~(pc = "commit" /\ pc' = "close")) =>
          (drop /\ pc = "start" /\ db'.rows = {})
    /\ pc' = "failed" => db'.rows = db.rows

C10_DropOrder == []C10_State /\ [][C10_Step]_vars

(* A run with drop set on a database that held a contest, failed in the    *)
(* extraction of a task after an upload: the contest is gone.              *)
C10_Witness ==
    /\ drop
    /\ pc = "failed"
    /\ err = "ValueError"
    /\ Ops("put") # {}
    /\ db.rows = {}
    /\ Ops("commit") = {}

-----------------------------------------------------------------------------
(* C3: a contest directory whose name is the nome_breve of a contest.yaml  *)
(* that has its other fields is extracted, with that name; one whose name  *)
(* differs ends the run with AssertionError before anything is extracted.  *)
(* The same for a task and its yaml file, and a task whose name differs    *)
(* ends the run before any upload for it.                                  *)
ContestValid == Has(cconf, "nome") /\ Has(cconf, "problemi") /\ Has(cconf, "utenti")

TaskValid == Has(tconf, "nome") /\ Has(tconf, "timeout") /\ Has(tconf, "memlimit")

C3_NameCheck ==
    /\ (Has(cconf, "nome_breve") /\ ContestValid) =>
          IF cconf.nome_breve = Last(RealPath(dir))
          THEN /\ Has(params, "name")
               /\ params.name = Last(RealPath(dir))
          ELSE /\ pc = "failed"
               /\ err = "AssertionError"
               /\ DOMAIN params = {}
               /\ \A k \in 1..Len(log) : log[k].op \notin ExtractionOps
    /\ (Has(tconf, "nome_breve") /\ TaskValid) =>
          /\ tname = Last(RealPath(dir \o <<tasks[log[Begun].idx]>>))
          /\ IF tconf.nome_breve = tname
             THEN /\ Has(tparams, "name")
                  /\ tparams.name = tname
             ELSE /\ pc = "failed"
                  /\ err = "AssertionError"
                  /\ DOMAIN tparams = {}
                  /\ TaskPuts = <<>>

(* The second task's yaml names another task: the run ends there, after    *)
(* the uploads of the first task, with none for the second.                *)
C3_Witness ==
    /\ dir = <<"cur", "">>
    /\ Has(params, "name")
    /\ params.name = "demo"
    /\ pc = "failed"
    /\ err = "AssertionError"
    /\ Len(params.tasks) = 1
    /\ Has(tconf, "nome_breve")
    /\ tconf.nome_breve # tname
    /\ Ops("put") # {}

(* C4: the uploads of input and output files of a task are input0,         *)
(* output0, input1, output1, ..., none for an index from the declared      *)
(* count on; the finished list has one Testcase per index below the count, *)
(* in order, holding the references of the two uploads of that index.      *)
IsInOut(e) == e.file \in {"input", "output"}

InOutPuts == SelectSeq(TaskPuts, IsInOut)

Max0(k) == IF k > 0 THEN k ELSE 0

C4_Testcases ==
    /\ \A j \in 1..Len(InOutPuts) :
         /\ InOutPuts[j].file = (IF j % 2 = 1 THEN "input" ELSE "output")
         /\ InOutPuts[j].idx = (j - 1) \div 2
    /\ InOutPuts # <<>> =>
         /\ InputCountError(tconf) = ""
         /\ \A j \in 1..Len(InOutPuts) : InOutPuts[j].idx < InputCount(tconf)
    /\ Has(tparams, "testcases") =>
         /\ Len(tparams.testcases) = Max0(InputCount(tconf))
         /\ Len(InOutPuts) = 2 * Max0(InputCount(tconf))
         /\ \A k \in 1..Len(tparams.testcases) :
              tparams.testcases[k] =
                 Testcase(InOutPuts[2 * k - 1].ref, InOutPuts[2 * k].ref)

(* n_input: "2" gives two testcases.                                       *)
C4_Witness ==
    /\ pc = "done"
    /\ tconf.n_input = [str |-> <<"2">>]
    /\ Len(tparams.testcases) = 2
    /\ tparams.testcases[1].input < tparams.testcases[2].input

(* C5: an empty or absent risultati gives the empty list; a text whose     *)
(* pieces between the commas are all integers gives those integers, one    *)
(* per piece, in the order of the text; a text with a piece that is no     *)
(* integer (an empty piece too) gives no list: the run ends with           *)
(* ValueError.                                                             *)
Risultati == Get(tconf, "risultati", <<>>)

Commas(s) == {k \in 1..Len(s) : s[k] = ","}

NthComma(s, j) == CHOOSE k \in Commas(s) : Cardinality({m \in Commas(s) : m <= k}) = j

Piece(s, j) ==
    LET lo == IF j = 1 THEN 0 ELSE NthComma(s, j - 1)
        hi == IF j = Cardinality(Commas(s)) + 1 THEN Len(s) + 1 ELSE NthComma(s, j)
    IN  SubSeq(s, lo + 1, hi - 1)

Pieces(s) == 1..(Cardinality(Commas(s)) + 1)

PublicReached == Has(tparams, "testcases") /\ pc # "public"

C5_PublicTestcases ==
    /\ PublicReached =>
          IF Risultati = <<>>
          THEN Has(tparams, "public_testcases") /\ tparams.public_testcases = <<>>
          ELSE IF \A j \in Pieces(Risultati) : IsIntText(Piece(Risultati, j))
          THEN /\ Has(tparams, "public_testcases")
               /\ Len(tparams.public_testcases) = Cardinality(Pieces(Risultati))
               /\ \A j \in Pieces(Risultati) :
                    tparams.public_testcases[j] =
                       PublicTestcase(IntOfText(Piece(Risultati, j)))
          ELSE /\ ~Has(tparams, "public_testcases")
               /\ pc = "failed"
               /\ err = "ValueError"
    /\ (Has(tparams, "public_testcases") /\ Risultati = <<"0", ",", "2", ",", "5">>) =>
          tparams.public_testcases = <<[num |-> 0], [num |-> 2], [num |-> 5]>>
    /\ (Has(tparams, "public_testcases") /\ Risultati = <<"5">>) =>
          tparams.public_testcases = <<[num |-> 5]>>

(* risultati: "0,2,5"                                                      *)
C5_Witness ==
    /\ pc = "done"
    /\ Risultati = <<"0", ",", "2", ",", "5">>
    /\ Len(tparams.public_testcases) = 3

(* C6: when cor/correttore is opened, the managers are one entry,          *)
(* "checker", with the reference of the one upload of the checker; when it *)
(* cannot be opened, the managers are empty and no checker is uploaded;    *)
(* the only failure between the statement and the managers is a failed     *)
(* upload of an opened checker; and in both cases the other uploads of the *)
(* task are the statement and the testcases, and the finished task has its *)
(* testcases and defaults.                                                 *)
IsChecker(e) == e.file = "correttore"

IsNotChecker(e) == e.file # "correttore"

CheckerPuts == SelectSeq(TaskPuts, IsChecker)

C6_Checker ==
    /\ (fd = "file" /\ Has(tparams, "managers")) =>
          /\ DOMAIN tparams.managers = {"checker"}
          /\ Len(CheckerPuts) = 1
          /\ tparams.managers.checker = Manager(CheckerPuts[1].ref)
    /\ fd = "None" =>
          /\ Has(tparams, "managers")
          /\ DOMAIN tparams.managers = {}
          /\ CheckerPuts = <<>>
    /\ fd = "unset" => (CheckerPuts = <<>> /\ ~Has(tparams, "managers"))
    /\ (pc = "failed" /\ Has(tparams, "statement") /\ ~Has(tparams, "managers")) =>
          (fd = "file" /\ err = "FSError")
    /\ Has(tparams, "token_gen_time") =>
          /\ fd \in {"file", "None"}
          /\ Len(SelectSeq(TaskPuts, IsNotChecker)) = 1 + 2 * Max0(InputCount(tconf))
          /\ SelectSeq(TaskPuts, IsNotChecker)[1].file = "testo.pdf"
          /\ Len(tparams.testcases) = Max0(InputCount(tconf))
          /\ tparams.score_type = SCORE_TYPE_SUM
          /\ tparams.score_parameters = <<>>
          /\ tparams.token_gen_time = 60

(* A task without checker, imported with its two testcases.                *)
C6_Witness ==
    /\ pc = "done"
    /\ fd = "None"
    /\ DOMAIN tparams.managers = {}
    /\ Len(tparams.testcases) = 2

(* C7: in the parameters of a contest and in those of a task, each of      *)
(* token_initial, token_max, token_total and token_min_interval is the     *)
(* configured value, 0 when there is none; token_gen_time is the           *)
(* configured value, and when there is none 1 for a contest and 60 for a   *)
(* task, whatever the contest configures.                                  *)
ZeroKeys == {"token_initial", "token_max", "token_total", "token_min_interval"}

C7_TokenDefaults ==
    /\ Has(params, "token_gen_time") =>
          /\ \A k \in ZeroKeys : params[k] = (IF Has(cconf, k) THEN cconf[k] ELSE 0)
          /\ params.token_gen_time =
                (IF Has(cconf, "token_gen_time") THEN cconf.token_gen_time ELSE 1)
    /\ Has(tparams, "token_gen_time") =>
          /\ \A k \in ZeroKeys : tparams[k] = (IF Has(tconf, k) THEN tconf[k] ELSE 0)
          /\ tparams.token_gen_time =
                (IF Has(tconf, "token_gen_time") THEN tconf.token_gen_time ELSE 60)

(* A task that configures no token field, in a contest that configures     *)
(* them all.                                                               *)
C7_Witness ==
    /\ pc = "done"
    /\ TokenKeys \subseteq DOMAIN cconf
    /\ TokenKeys \cap DOMAIN tconf = {}
    /\ params.token_gen_time = TokenValue
    /\ tparams.token_gen_time = 60
    /\ tparams.token_max = 0

(* C8, as claimed: a user record with neither nome nor cognome gives a     *)
(* real_name that is the username.                                         *)
C8_RealNameIsUsername ==
    Has(params, "users") =>
       \A k \in 1..Len(params.users) :
          (~Has(users[k], "nome") /\ ~Has(users[k], "cognome")) =>
             params.users[k].real_name = users[k].username

====
